---- MODULE Spec2Model ----
(***************************************************************************)
(* The tiled layout generator of contrib/layout.c (river-layout-v1 with    *)
(* river-options-v2): main(), the registry and sync handlers, the output   *)
(* contexts with their options, the layout demand handler and teardown.    *)
(*                                                                         *)
(* Representation of C values:                                             *)
(*   uint32_t  an integer in -2^31 .. 2^31-1 holding the 32-bit pattern    *)
(*             (the value v >= 2^31 is held as v - 2^32); the U32*         *)
(*             operators compute modulo 2^32 on 16-bit halves.             *)
(*   double    main_factor only: an integer count of 1/DDen, so that 0.1,  *)
(*             0.6, 0.9 and every wl_fixed_t value/256 are exact.          *)
(*   pointer   0 is NULL; the k-th proxy bound for an interface is k, and  *)
(*             the proxies created for an output carry the output's k.     *)
(***************************************************************************)
EXTENDS Integers, Sequences, FiniteSets, TLC

(* ---------------------------------------------------------------- bounds *)
MaxEvents == 6       \* events the server sends in one run

(* ------------------------------------------------------ program constants *)
EXIT_SUCCESS == 0
EXIT_FAILURE == 1
NULL == 0

Half == 65536        \* 2^16: a uint32_t is two halves
DDen == 1280         \* denominator of the model's doubles (lcm of 10 and 256)

(* inputs the server may supply *)
Interfaces  == {"river_layout_manager_v1", "river_options_manager_v2",
                "wl_output", "wl_seat"}
OptionNames == {"main_count", "main_factor", "view_padding", "outer_padding"}
UintValues  == {0, 2}                 \* uint_value payloads
FixedValues == {13, 128, 256}            \* fixed_value payloads (wl_fixed_t, 24.8)
ViewCounts  == {0, 1, 2, 3}           \* view_count of a layout demand
Demands     == {[width |-> 100, height |-> 80]}
Tags        == {1}
Serials     == {1, 2}

(* -------------------------------------------------- uint32_t arithmetic *)
Hi(a) == IF a >= 0 THEN a \div Half ELSE Half + (a \div Half)
Lo(a) == a % Half
U32(hi, lo) == IF hi < Half \div 2 THEN hi * Half + lo
                                   ELSE (hi - Half) * Half + lo

U32Sub(a, b) ==
    LET lo == Lo(a) - Lo(b)
        hi == Hi(a) - Hi(b) - (IF lo < 0 THEN 1 ELSE 0)
    IN  U32(hi % Half, lo % Half)

U32Add(a, b) ==
    LET lo == Lo(a) + Lo(b)
        hi == Hi(a) + Hi(b) + (lo \div Half)
    IN  U32(hi % Half, lo % Half)

\* (x * y) mod 2^16 for halves x, y, without leaving 32 bits
MulMod16(x, y) == (((x * (y \div 256)) % 256) * 256 + x * (y % 256)) % Half

U32Mul(a, b) ==
    LET al == Lo(a)
        bl == Lo(b)
        p1 == al * (bl \div 256)
        p0 == al * (bl % 256)
        lo == (p1 % 256) * 256 + p0
        hi == (p1 \div 256) + (lo \div Half)
              + MulMod16(Hi(a), bl) + MulMod16(al, Hi(b))
    IN  U32(hi % Half, lo % Half)

\* unsigned a < b
U32Less(a, b) == \/ Hi(a) < Hi(b)
                 \/ Hi(a) = Hi(b) /\ Lo(a) < Lo(b)

\* unsigned a / n; the divisors of the demand handler are at most view_count
U32Div(a, n) ==
    LET qh == Hi(a) \div n
        r  == Hi(a) % n
        ql == (r * Half + Lo(a)) \div n
    IN  U32(qh, ql)

(* ------------------------------------------------------------- the macros *)
MIN(a, b) == IF a < b THEN a ELSE b
MAX(a, b) == IF a > b THEN a ELSE b
\* the upper limit is not applied
CLAMP_lower_only(a, b, c) == MAX(MIN(b, c), a)

CLAMP(a, b, c) == MIN(MAX(b, c), MAX(MIN(b, c), a))
U32MIN(a, b) == IF U32Less(a, b) THEN a ELSE b

(* --------------------------------------------------------------- doubles *)
wl_fixed_to_double(f) == f * (DDen \div 256)
D_0_1 == DDen \div 10            \* 0.1
D_0_6 == (6 * DDen) \div 10      \* 0.6
D_0_9 == (9 * DDen) \div 10      \* 0.9

\* (unsigned int)(width * f) for a double f in [0.1, 0.9]: width converts to
\* double exactly, and the truncated product equals the floor of the exact
\* product for f in {0.1, 0.6, 0.9} and for every f = fixed/256.
U32MulDouble(w, f) ==
    LET q1 == (Hi(w) * f) \div DDen
        r1 == (Hi(w) * f) % DDen
        t  == (r1 * Half + Lo(w) * f) \div DDen
    IN  U32((q1 + (t \div Half)) % Half, t % Half)

(* ----------------------------------------------------------------- state *)
VARIABLES
    pc,               \* where main() is: start, check, dispatch, finish, exited
    wl_display,       \* the globals of layout.c, lines 91..98
    wl_registry,
    sync_callback,
    layout_manager,
    options_manager,
    outputs,          \* the wl_list of struct Output, head first
    loop,
    ret,
    dispatched,       \* server side: the number of events sent so far
    sent,             \* the requests issued by the last step, in order
    event,            \* the event (or step of main) that issued `sent`
    gate,             \* history: "pending", or how sync_handle_done ended
    configures,       \* history: configure_output calls per wl_output
    binds,            \* history: wl_registry_bind calls per interface
    fatal             \* history: the fatal conditions met so far

vars == <<pc, wl_display, wl_registry, sync_callback, layout_manager,
          options_manager, outputs, loop, ret, dispatched, sent, event,
          gate, configures, binds, fatal>>

globals  == <<wl_display, wl_registry, sync_callback, layout_manager,
              options_manager>>
history  == <<gate, configures, binds, fatal>>

Request(req, on, name, args) ==
    [req |-> req, on |-> on, name |-> name, args |-> args]
NoEvent == [type |-> "none"]

(* ------------------------------------------------------------ struct Output *)
Option(output, type, value) ==
    [output |-> output, handle |-> NULL, type |-> type, value |-> value]

\* create_output, lines 281..303: the context with its defaults
NewOutput(wl_output) ==
    [output        |-> wl_output,
     layout        |-> NULL,
     configured    |-> FALSE,
     main_count    |-> Option(wl_output, "UINT_OPTION", 1),
     main_factor   |-> Option(wl_output, "DOUBLE_OPTION", D_0_6),
     view_padding  |-> Option(wl_output, "UINT_OPTION", 5),
     outer_padding |-> Option(wl_output, "UINT_OPTION", 5)]

\* the index in the list of the Output an Option points back to
OwnerOf(option) == CHOOSE i \in DOMAIN outputs : outputs[i].output = option.output

(* ------------------------------------------------- layout_handle_layout_demand *)
MainDivisor(output, view_count) == U32MIN(output.main_count.value, view_count)

\* the stack slots divide the height by the number of all views
StackDivisor_all(output, view_count) == view_count

StackDivisor(output, view_count) == U32Sub(view_count, output.main_count.value)

UsedFactor(output) == CLAMP(output.main_factor.value, D_0_1, D_0_9)

\* lines 115..132: the two region widths, after the outer padding is taken off
Regions(output, view_count, width) ==
    LET w == U32Sub(width, U32Mul(2, output.outer_padding.value))
        main_size == IF output.main_count.value = 0 THEN 0
                     ELSE IF ~U32Less(output.main_count.value, view_count) THEN w
                     ELSE U32MulDouble(w, UsedFactor(output))
    IN  [main_size  |-> main_size,
         stack_size |-> IF output.main_count.value = 0 THEN w
                        ELSE IF ~U32Less(output.main_count.value, view_count) THEN 0
                        ELSE U32Sub(w, main_size)]

\* the view whose index equals main_count is put in the main area too
InMainArea_le(output, i) == ~U32Less(output.main_count.value, i)

\* line 135: i < output->main_count.value.u
InMainArea(output, i) == U32Less(i, output.main_count.value)

\* lines 139 and 146: the divisors the loop of lines 133..155 evaluates
Divisors(output, view_count) ==
    {IF InMainArea(output, i) THEN MainDivisor(output, view_count)
                              ELSE StackDivisor(output, view_count) :
        i \in 0..(view_count - 1)}

\* lines 139 and 146: height / divisor. A zero divisor is undefined
\* behaviour: the division either traps (see layout_handle_layout_demand)
\* or, where the instruction does not trap, yields 0.
Quotient(a, n) == IF n = 0 THEN 0 ELSE U32Div(a, n)

\* the stack views are placed by their index among all views
Slot_stack_y_from_i(output, view_count, width, height, i) ==
    LET h == U32Sub(height, U32Mul(2, output.outer_padding.value))
        r == Regions(output, view_count, width)
    IN  IF InMainArea(output, i)
        THEN LET view_height == Quotient(h, MainDivisor(output, view_count))
             IN  [x |-> 0, y |-> U32Mul(i, view_height),
                  width |-> r.main_size, height |-> view_height]
        ELSE LET view_height == Quotient(h, StackDivisor(output, view_count))
             IN  [x |-> r.main_size,
                  y |-> U32Mul(i, view_height),
                  width |-> r.stack_size, height |-> view_height]

\* lines 135..148: the slot of view i
Slot(output, view_count, width, height, i) ==
    LET h == U32Sub(height, U32Mul(2, output.outer_padding.value))
        r == Regions(output, view_count, width)
    IN  IF InMainArea(output, i)
        THEN LET view_height == Quotient(h, MainDivisor(output, view_count))
             IN  [x |-> 0, y |-> U32Mul(i, view_height),
                  width |-> r.main_size, height |-> view_height]
        ELSE LET view_height == Quotient(h, StackDivisor(output, view_count))
             IN  [x |-> r.main_size,
                  y |-> U32Mul(U32Sub(i, output.main_count.value), view_height),
                  width |-> r.stack_size, height |-> view_height]

\* the view padding is taken off once, not on both sides
PushView_single_padding(output, view_count, width, height, serial, i) ==
    LET s  == Slot(output, view_count, width, height, i)
        vp == output.view_padding.value
        op == output.outer_padding.value
    IN  Request("push_view_dimensions", output.layout, "",
                <<serial,
                  U32Add(U32Add(s.x, vp), op),
                  U32Add(U32Add(s.y, vp), op),
                  U32Sub(s.width, vp),
                  U32Sub(s.height, vp)>>)

\* a size that would wrap below zero is pushed as 0
PushView_clamped(output, view_count, width, height, serial, i) ==
    LET s  == Slot(output, view_count, width, height, i)
        vp == output.view_padding.value
        op == output.outer_padding.value
    IN  Request("push_view_dimensions", output.layout, "",
                <<serial,
                  U32Add(U32Add(s.x, vp), op),
                  U32Add(U32Add(s.y, vp), op),
                  IF U32Less(s.width, U32Mul(2, vp)) THEN 0
                  ELSE U32Sub(s.width, U32Mul(2, vp)),
                  IF U32Less(s.height, U32Mul(2, vp)) THEN 0
                  ELSE U32Sub(s.height, U32Mul(2, vp))>>)

\* lines 150..154
PushView(output, view_count, width, height, serial, i) ==
    LET s  == Slot(output, view_count, width, height, i)
        vp == output.view_padding.value
        op == output.outer_padding.value
    IN  Request("push_view_dimensions", output.layout, "",
                <<serial,
                  U32Add(U32Add(s.x, vp), op),
                  U32Add(U32Add(s.y, vp), op),
                  U32Sub(s.width, U32Mul(2, vp)),
                  U32Sub(s.height, U32Mul(2, vp))>>)

\* line 157
Commit(output, serial) == Request("commit", output.layout, "", <<serial>>)

\* the loop stops one view early
DemandRequests_short(output, view_count, width, height, serial) ==
    [k \in 1..(view_count - 1) |->
        PushView(output, view_count, width, height, serial, k - 1)]
    \o <<Commit(output, serial)>>

\* the commit is issued before the views are pushed
DemandRequests_commit_first(output, view_count, width, height, serial) ==
    <<Commit(output, serial)>>
    \o [k \in 1..view_count |->
          PushView(output, view_count, width, height, serial, k - 1)]

\* lines 133..157: the loop, then the commit
DemandRequests(output, view_count, width, height, serial) ==
    [k \in 1..view_count |->
        PushView(output, view_count, width, height, serial, k - 1)]
    \o <<Commit(output, serial)>>

\* wl_display_dispatch calls the handler of the next event the server sent
Deliver ==
    /\ pc = "dispatch"
    /\ dispatched < MaxEvents
    /\ dispatched' = dispatched + 1

\* whether a division of the handler may trap: only one by zero may
Traps(output, view_count) ==
    IF 0 \in Divisors(output, view_count) THEN {TRUE, FALSE} ELSE {FALSE}

\* lines 100..158; event.divisors records the divisors the loop evaluated
layout_handle_layout_demand(o, view_count, width, height, tags, serial) ==
    /\ Deliver
    /\ outputs[o].layout # NULL
    /\ \E trap \in Traps(outputs[o], view_count) :
          IF trap
          THEN /\ pc' = "crashed"
               /\ sent' = <<>>
          ELSE /\ pc' = pc
               /\ sent' = DemandRequests(outputs[o], view_count, width,
                                         height, serial)
    /\ event' = [type |-> "layout_demand", output |-> outputs[o].output,
                 view_count |-> view_count, width |-> width,
                 height |-> height, serial |-> serial,
                 divisors |-> Divisors(outputs[o], view_count)]
    /\ UNCHANGED <<globals, outputs, loop, ret, history>>

\* lines 160..171
layout_handle_namespace_in_use(o) ==
    /\ Deliver
    /\ outputs[o].layout # NULL
    /\ loop' = FALSE
    /\ sent' = <<>>
    /\ event' = [type |-> "namespace_in_use", output |-> outputs[o].output]
    /\ fatal' = fatal \cup {"namespace_in_use"}
    /\ UNCHANGED <<pc, globals, outputs, ret, gate, configures, binds>>

(* ------------------------------------------------------- option handlers *)
\* the request goes to the layout of the first context of the list
ParametersChanged_head(option) ==
    Request("parameters_changed", outputs[1].layout, "", <<>>)

\* line 200 / 212: river_layout_v1_parameters_changed(option->output->layout)
ParametersChanged(option) ==
    Request("parameters_changed", outputs[OwnerOf(option)].layout, "", <<>>)

\* the type of the option is not looked at
option_handle_uint_untyped(o, name, value) ==
    /\ Deliver
    /\ outputs[o][name].handle # NULL
    /\ outputs' = [outputs EXCEPT ![o][name].value = value]
    /\ sent' = <<Request("parameters_changed", outputs[o].layout, "", <<>>)>>
    /\ event' = [type |-> "uint_value", output |-> outputs[o].output,
                 name |-> name, value |-> value]
    /\ UNCHANGED <<pc, globals, loop, ret, history>>

\* the value is written to the option of that name of every context
option_handle_uint_all(o, name, value) ==
    /\ Deliver
    /\ outputs[o][name].handle # NULL
    /\ IF outputs[o][name].type = "UINT_OPTION"
       THEN /\ outputs' = [i \in DOMAIN outputs |->
                              [outputs[i] EXCEPT ![name].value = value]]
            /\ sent' = <<ParametersChanged(outputs[o][name])>>
       ELSE /\ outputs' = outputs
            /\ sent' = <<>>
    /\ event' = [type |-> "uint_value", output |-> outputs[o].output,
                 name |-> name, value |-> value]
    /\ UNCHANGED <<pc, globals, loop, ret, history>>

\* lines 183..202
option_handle_uint(o, name, value) ==
    /\ Deliver
    /\ outputs[o][name].handle # NULL
    /\ IF outputs[o][name].type = "UINT_OPTION"
       THEN /\ outputs' = [outputs EXCEPT ![o][name].value = value]
            /\ sent' = <<ParametersChanged(outputs[o][name])>>
       ELSE /\ outputs' = outputs
            /\ sent' = <<>>
    /\ event' = [type |-> "uint_value", output |-> outputs[o].output,
                 name |-> name, value |-> value]
    /\ UNCHANGED <<pc, globals, loop, ret, history>>

\* the value is clamped when it is stored
option_handle_fixed_clamped(o, name, value) ==
    /\ Deliver
    /\ outputs[o][name].handle # NULL
    /\ IF outputs[o][name].type = "DOUBLE_OPTION"
       THEN /\ outputs' = [outputs EXCEPT ![o][name].value =
                              CLAMP(wl_fixed_to_double(value), D_0_1, D_0_9)]
            /\ sent' = <<Request("parameters_changed", outputs[o].layout,
                                 "", <<>>)>>
       ELSE /\ outputs' = outputs
            /\ sent' = <<>>
    /\ event' = [type |-> "fixed_value", output |-> outputs[o].output,
                 name |-> name, value |-> value]
    /\ UNCHANGED <<pc, globals, loop, ret, history>>

\* lines 204..214
option_handle_fixed(o, name, value) ==
    /\ Deliver
    /\ outputs[o][name].handle # NULL
    /\ IF outputs[o][name].type = "DOUBLE_OPTION"
       THEN /\ outputs' = [outputs EXCEPT
                              ![o][name].value = wl_fixed_to_double(value)]
            /\ sent' = <<ParametersChanged(outputs[o][name])>>
       ELSE /\ outputs' = outputs
            /\ sent' = <<>>
    /\ event' = [type |-> "fixed_value", output |-> outputs[o].output,
                 name |-> name, value |-> value]
    /\ UNCHANGED <<pc, globals, loop, ret, history>>

\* line 174, as plugged into option_listener (lines 217..226)
OptionNoops == {"int_value", "string_value", "undeclared"}

noop_option(type, o, name) ==
    /\ Deliver
    /\ outputs[o][name].handle # NULL
    /\ sent' = <<>>
    /\ event' = [type |-> type, output |-> outputs[o].output, name |-> name]
    /\ UNCHANGED <<pc, globals, outputs, loop, ret, history>>

\* line 174, as plugged into layout_listener (lines 179..180)
LayoutNoops == {"advertise_view", "advertise_done"}

noop_layout(type, o) ==
    /\ Deliver
    /\ outputs[o].layout # NULL
    /\ sent' = <<>>
    /\ event' = [type |-> type, output |-> outputs[o].output]
    /\ UNCHANGED <<pc, globals, outputs, loop, ret, history>>

\* line 174, as plugged into registry_listener (line 362)
noop_registry ==
    /\ Deliver
    /\ binds.wl_output > 0
    /\ sent' = <<>>
    /\ event' = [type |-> "global_remove"]
    /\ UNCHANGED <<pc, globals, outputs, loop, ret, history>>

(* ------------------------------------------ configure_output, create_output *)
\* the flag is set, the layout and the handles are not requested
Configured_flag_only(output) == [output EXCEPT !.configured = TRUE]

\* lines 231..269: the fields configure_output sets
Configured(output) ==
    [output EXCEPT !.configured           = TRUE,
                   !.layout               = output.output,
                   !.main_count.handle    = output.output,
                   !.main_factor.handle   = output.output,
                   !.view_padding.handle  = output.output,
                   !.outer_padding.handle = output.output]

\* lines 237..269: the requests configure_output issues
ConfigureRequests(output) ==
    <<Request("get_layout", layout_manager, "tile", <<output.output>>),
      Request("get_option_handle", options_manager, "main_count", <<output.output>>),
      Request("get_option_handle", options_manager, "main_factor", <<output.output>>),
      Request("get_option_handle", options_manager, "view_padding", <<output.output>>),
      Request("get_option_handle", options_manager, "outer_padding", <<output.output>>)>>

\* line 308
ConfigureInline == layout_manager # NULL /\ options_manager # NULL

\* lines 272..313; wl_list_insert puts the new context at the head
create_output(wl_output, alloc_ok) ==
    IF ~alloc_ok
    THEN /\ loop' = FALSE
         /\ ret' = EXIT_FAILURE
         /\ sent' = <<Request("bind", wl_registry, "wl_output", <<wl_output>>)>>
         /\ fatal' = fatal \cup {"allocation"}
         /\ UNCHANGED <<outputs, configures>>
    ELSE /\ IF ConfigureInline
            THEN /\ outputs' = <<Configured(NewOutput(wl_output))>> \o outputs
                 /\ sent' = <<Request("bind", wl_registry, "wl_output", <<wl_output>>)>>
                            \o ConfigureRequests(NewOutput(wl_output))
                 /\ configures' = [configures EXCEPT ![wl_output] = @ + 1]
            ELSE /\ outputs' = <<NewOutput(wl_output)>> \o outputs
                 /\ sent' = <<Request("bind", wl_registry, "wl_output", <<wl_output>>)>>
                 /\ UNCHANGED configures
         /\ UNCHANGED <<loop, ret, fatal>>

(* -------------------------------------------------- registry_handle_global *)
\* lines 339..358; alloc_ok is whether calloc succeeds in create_output
registry_handle_global(interface, alloc_ok) ==
    /\ Deliver
    /\ event' = [type |-> "global", interface |-> interface]
    /\ IF interface = "river_layout_manager_v1"
       THEN /\ alloc_ok
            /\ layout_manager' = binds[interface] + 1
            /\ binds' = [binds EXCEPT ![interface] = @ + 1]
            /\ sent' = <<Request("bind", wl_registry, interface, <<>>)>>
            /\ UNCHANGED <<options_manager, outputs, loop, ret, configures, fatal>>
       ELSE IF interface = "river_options_manager_v2"
       THEN /\ alloc_ok
            /\ options_manager' = binds[interface] + 1
            /\ binds' = [binds EXCEPT ![interface] = @ + 1]
            /\ sent' = <<Request("bind", wl_registry, interface, <<>>)>>
            /\ UNCHANGED <<layout_manager, outputs, loop, ret, configures, fatal>>
       ELSE IF interface = "wl_output"
       THEN /\ create_output(binds[interface] + 1, alloc_ok)
            /\ binds' = [binds EXCEPT ![interface] = @ + 1]
            /\ UNCHANGED <<layout_manager, options_manager>>
       ELSE /\ alloc_ok
            /\ sent' = <<>>
            /\ UNCHANGED <<layout_manager, options_manager, outputs, loop,
                           ret, configures, binds, fatal>>
    /\ UNCHANGED <<pc, wl_display, wl_registry, sync_callback, gate>>

(* -------------------------------------------------------- sync_handle_done *)
\* lines 395..398
DeclareRequests ==
    <<Request("declare_uint_option", options_manager, "main_count", <<1>>),
      Request("declare_fixed_option", options_manager, "main_factor", <<D_0_6>>),
      Request("declare_uint_option", options_manager, "view_padding", <<5>>),
      Request("declare_uint_option", options_manager, "outer_padding", <<5>>)>>

\* the configured flag is not looked at
NeedsConfigure_always(output) == TRUE

\* line 406
NeedsConfigure(output) == ~output.configured

\* lines 404..407: the contexts the loop configures, in list order
Unconfigured == SelectSeq(outputs, NeedsConfigure)

RECURSIVE ConfigureAll(_)
ConfigureAll(list) ==
    IF list = <<>> THEN <<>>
    ELSE ConfigureRequests(Head(list)) \o ConfigureAll(Tail(list))

\* the options manager is not checked
MissingManager_layout_only == layout_manager = NULL

\* lines 374 and 382: what the handler finds missing
MissingManager == layout_manager = NULL \/ options_manager = NULL

\* lines 365..408
sync_handle_done ==
    /\ Deliver
    /\ sync_callback # NULL
    /\ sync_callback' = NULL
    /\ event' = [type |-> "done"]
    /\ IF MissingManager
       THEN /\ ret' = EXIT_FAILURE
            /\ loop' = FALSE
            /\ sent' = <<Request("destroy", sync_callback, "wl_callback", <<>>)>>
            /\ gate' = "failed"
            /\ fatal' = fatal \cup {"capability"}
            /\ UNCHANGED <<outputs, configures>>
       ELSE /\ sent' = <<Request("destroy", sync_callback, "wl_callback", <<>>)>>
                       \o DeclareRequests \o ConfigureAll(Unconfigured)
            /\ outputs' = [i \in DOMAIN outputs |->
                             IF NeedsConfigure(outputs[i])
                             THEN Configured(outputs[i]) ELSE outputs[i]]
            /\ configures' = [n \in DOMAIN configures |->
                                IF \E i \in DOMAIN outputs :
                                      /\ outputs[i].output = n
                                      /\ NeedsConfigure(outputs[i])
                                THEN configures[n] + 1 ELSE configures[n]]
            /\ gate' = "passed"
            /\ UNCHANGED <<loop, ret, fatal>>
    /\ UNCHANGED <<pc, wl_display, wl_registry, layout_manager,
                   options_manager, binds>>

(* ------------------------------------------------------------------- main *)
\* lines 414..447 and 469..471
init_wayland(display_name_set, connect_ok) ==
    /\ pc = "start"
    /\ IF display_name_set /\ connect_ok
       THEN /\ wl_display' = 1
            /\ wl_registry' = 1
            /\ sync_callback' = 1
            /\ outputs' = <<>>
            /\ ret' = EXIT_SUCCESS
            /\ sent' = <<Request("get_registry", 1, "wl_display", <<>>),
                         Request("sync", 1, "wl_display", <<>>)>>
            /\ event' = [type |-> "init_wayland"]
            /\ pc' = "check"
       ELSE /\ pc' = "finish"
            /\ UNCHANGED <<wl_display, wl_registry, sync_callback, outputs,
                           ret, sent, event>>
    /\ UNCHANGED <<layout_manager, options_manager, loop, dispatched, history>>

\* the stop flag is not consulted
main_loop_always ==
    /\ pc = "check"
    /\ pc' = "dispatch"
    /\ UNCHANGED <<globals, outputs, loop, ret, dispatched, sent, event, history>>

\* line 472: the loop condition, up to the call of wl_display_dispatch
main_loop ==
    /\ pc = "check"
    /\ pc' = IF loop THEN "dispatch" ELSE "finish"
    /\ UNCHANGED <<globals, outputs, loop, ret, dispatched, sent, event, history>>

\* line 472: wl_display_dispatch returns, having run the handlers of the
\* events it read; -1 when the connection failed or was closed
wl_display_dispatch(rv) ==
    /\ pc = "dispatch"
    /\ pc' = IF rv # -1 THEN "check" ELSE "finish"
    /\ UNCHANGED <<globals, outputs, loop, ret, dispatched, sent, event, history>>

\* the layout is destroyed without looking whether it exists
DestroyRequests_unguarded(output) ==
    <<Request("destroy", output.layout, "river_layout_v1", <<>>),
      Request("destroy", output.output, "wl_output", <<>>)>>

\* lines 315..330: the requests destroy_output issues for one context
DestroyRequests(output) ==
    (IF output.layout # NULL
     THEN <<Request("destroy", output.layout, "river_layout_v1", <<>>)>> ELSE <<>>)
    \o (IF output.main_count.handle # NULL
        THEN <<Request("destroy", output.main_count.handle, "main_count", <<>>)>>
        ELSE <<>>)
    \o (IF output.main_factor.handle # NULL
        THEN <<Request("destroy", output.main_factor.handle, "main_factor", <<>>)>>
        ELSE <<>>)
    \o (IF output.view_padding.handle # NULL
        THEN <<Request("destroy", output.view_padding.handle, "view_padding", <<>>)>>
        ELSE <<>>)
    \o (IF output.outer_padding.handle # NULL
        THEN <<Request("destroy", output.outer_padding.handle, "outer_padding", <<>>)>>
        ELSE <<>>)
    \o <<Request("destroy", output.output, "wl_output", <<>>)>>

\* lines 332..337
RECURSIVE destroy_all_outputs(_)
destroy_all_outputs(list) ==
    IF list = <<>> THEN <<>>
    ELSE DestroyRequests(Head(list)) \o destroy_all_outputs(Tail(list))

\* lines 449..465 and 474..475
finish_wayland ==
    /\ pc = "finish"
    /\ pc' = "exited"
    /\ IF wl_display = NULL
       THEN UNCHANGED <<outputs, sent, event>>
       ELSE /\ outputs' = <<>>
            /\ event' = [type |-> "finish_wayland"]
            /\ sent' = destroy_all_outputs(outputs)
                 \o (IF sync_callback # NULL
                     THEN <<Request("destroy", sync_callback, "wl_callback", <<>>)>>
                     ELSE <<>>)
                 \o (IF layout_manager # NULL
                     THEN <<Request("destroy", layout_manager,
                                    "river_layout_manager_v1", <<>>)>>
                     ELSE <<>>)
                 \o (IF options_manager # NULL
                     THEN <<Request("destroy", options_manager,
                                    "river_options_manager_v2", <<>>)>>
                     ELSE <<>>)
                 \o <<Request("destroy", wl_registry, "wl_registry", <<>>),
                      Request("disconnect", wl_display, "wl_display", <<>>)>>
    /\ UNCHANGED <<globals, loop, ret, dispatched, history>>

(* ---------------------------------------------------------- specification *)
Init ==
    /\ pc = "start"
    /\ wl_display = NULL
    /\ wl_registry = NULL
    /\ sync_callback = NULL
    /\ layout_manager = NULL
    /\ options_manager = NULL
    /\ outputs = <<>>
    /\ loop = TRUE
    /\ ret = EXIT_FAILURE
    /\ dispatched = 0
    /\ sent = <<>>
    /\ event = NoEvent
    /\ gate = "pending"
    /\ configures = [n \in 1..MaxEvents |-> 0]
    /\ binds = [interface \in Interfaces |-> 0]
    /\ fatal = {}

Next ==
    \/ \E display_name_set, connect_ok \in BOOLEAN :
          init_wayland(display_name_set, connect_ok)
    \/ main_loop
    \/ \E rv \in {0, -1} : wl_display_dispatch(rv)
    \/ finish_wayland
    \/ \E interface \in Interfaces, alloc_ok \in BOOLEAN :
          registry_handle_global(interface, alloc_ok)
    \/ noop_registry
    \/ sync_handle_done
    \/ \E o \in DOMAIN outputs, view_count \in ViewCounts, d \in Demands,
          tags \in Tags, serial \in Serials :
          layout_handle_layout_demand(o, view_count, d.width, d.height,
                                      tags, serial)
    \/ \E o \in DOMAIN outputs : layout_handle_namespace_in_use(o)
    \/ \E o \in DOMAIN outputs, type \in LayoutNoops : noop_layout(type, o)
    \/ \E o \in DOMAIN outputs, name \in OptionNames, value \in UintValues :
          option_handle_uint(o, name, value)
    \/ \E o \in DOMAIN outputs, name \in OptionNames, value \in FixedValues :
          option_handle_fixed(o, name, value)
    \/ \E o \in DOMAIN outputs, name \in OptionNames, type \in OptionNoops :
          noop_option(type, o, name)

Spec == Init /\ [][Next]_vars

\* The program runs on: main evaluates the loop condition and calls
\* finish_wayland without waiting for anything (lines 472..475), and a
\* wl_display_dispatch call in which a handler has cleared loop returns once
\* it has run the handlers of the events it read. A dispatch call with
\* nothing to read may block for ever, so it is not required to return
\* while loop is set.
FairSpec ==
    /\ Spec
    /\ WF_vars(main_loop)
    /\ WF_vars(finish_wayland)
    /\ WF_vars(~loop /\ \E rv \in {0, -1} : wl_display_dispatch(rv))

(* ------------------------------------------------- the layout engine alone *)
\* parameter values the server may have pushed to a configured context
\* (lines 199 and 211), and the demands it may send (line 100)
EngineMainCounts    == {0, 1, 2, 3, 5}
EngineFactors       == {D_0_6} \cup {wl_fixed_to_double(f) : f \in FixedValues}
EngineViewPaddings  == {0, 5, 30, 60}
EngineOuterPaddings == {0, 5, 40, 60}
EngineViewCounts    == {0, 1, 2, 3, 4}
EngineDemands       == {[width |-> 100, height |-> 80],
                        [width |-> 1000, height |-> 800]}

\* a configured context holding the given parameters
EngineOutput(main_count, main_factor, view_padding, outer_padding) ==
    [Configured(NewOutput(1)) EXCEPT !.main_count.value    = main_count,
                                     !.main_factor.value   = main_factor,
                                     !.view_padding.value  = view_padding,
                                     !.outer_padding.value = outer_padding]

\* the state after both managers and one output were bound, the gate was
\* passed and the server pushed parameters; one more event may come
EngineInit ==
    /\ pc = "dispatch"
    /\ wl_display = 1
    /\ wl_registry = 1
    /\ sync_callback = NULL
    /\ layout_manager = 1
    /\ options_manager = 1
    /\ \E main_count \in EngineMainCounts, main_factor \in EngineFactors,
          view_padding \in EngineViewPaddings,
          outer_padding \in EngineOuterPaddings :
          outputs = <<EngineOutput(main_count, main_factor, view_padding,
                                   outer_padding)>>
    /\ loop = TRUE
    /\ ret = EXIT_SUCCESS
    /\ dispatched = MaxEvents - 1
    /\ sent = <<>>
    /\ event = NoEvent
    /\ gate = "passed"
    /\ configures = [n \in 1..MaxEvents |-> IF n = 1 THEN 1 ELSE 0]
    /\ binds = [interface \in Interfaces |->
                  IF interface = "wl_seat" THEN 0 ELSE 1]
    /\ fatal = {}

EngineNext ==
    \E view_count \in EngineViewCounts, d \in EngineDemands,
       tags \in Tags, serial \in Serials :
       layout_handle_layout_demand(1, view_count, d.width, d.height,
                                   tags, serial)

SpecEngine == EngineInit /\ [][EngineNext]_vars

(* ------------------------------------------------------------- properties *)
IsPush(r)   == r.req = "push_view_dimensions"
IsCommit(r) == r.req = "commit"
Pushes  == {k \in DOMAIN sent : IsPush(sent[k])}
Commits == {k \in DOMAIN sent : IsCommit(sent[k])}

\* the context an event was addressed to
Target == outputs[CHOOSE i \in DOMAIN outputs : outputs[i].output = event.output]

DemandHandled == event.type = "layout_demand"

\* C1: a handled layout demand has issued exactly view_count
\* push_view_dimensions requests and exactly one commit, all of them on the
\* output's layout and carrying the demand's serial, whatever the parameters
\* hold; a demand for zero views has issued the commit alone.
C1_PushCountAndSerial ==
    DemandHandled =>
        /\ Cardinality(Pushes) = event.view_count
        /\ Cardinality(Commits) = 1
        /\ Pushes \cup Commits = DOMAIN sent
        /\ \A k \in DOMAIN sent : /\ sent[k].args[1] = event.serial
                                  /\ sent[k].on = Target.layout

C1_Witness ==
    /\ DemandHandled
    /\ event.view_count = 3
    /\ event.serial = 2
    /\ Target.main_count.value = 2
    /\ Cardinality(Pushes) = 3

\* the geometry the k-th request must carry: that of view index k - 1
GeometryOf(i) ==
    LET s == Slot(Target, event.view_count, event.width, event.height, i)
    IN  <<U32Add(U32Add(s.x, Target.view_padding.value),
                 Target.outer_padding.value),
          U32Add(U32Add(s.y, Target.view_padding.value),
                 Target.outer_padding.value),
          U32Sub(s.width, U32Mul(2, Target.view_padding.value)),
          U32Sub(s.height, U32Mul(2, Target.view_padding.value))>>

\* C2: the requests of a handled demand are the pushes for the view indices
\* 0 .. view_count-1 in that order followed by the commit, which is the last
\* request; as handlers run to completion, no state between two events has
\* a demand that was received and not committed.
C2_PushOrderThenCommit ==
    DemandHandled =>
        /\ Len(sent) = event.view_count + 1
        /\ IsCommit(sent[Len(sent)])
        /\ \A k \in 1..event.view_count :
              /\ IsPush(sent[k])
              /\ SubSeq(sent[k].args, 2, 5) = GeometryOf(k - 1)

C2_Witness ==
    /\ DemandHandled
    /\ event.view_count = 3
    /\ Target.main_count.value = 1
    /\ IsCommit(sent[4])
    /\ sent[2].args[3] # sent[3].args[3]

InRange(d) == D_0_1 <= d /\ d <= D_0_9

\* C3 as claimed: in every reachable state the main_factor stored in every
\* output context lies in [0.1, 0.9].
C3_StoredFactorInRange ==
    \A i \in DOMAIN outputs : InRange(outputs[i].main_factor.value)

\* C3 as amended: the stored main_factor is the default 0.6 or the value of
\* a fixed_value push as converted by wl_fixed_to_double, not clamped; right
\* after a fixed_value push on main_factor it is exactly the pushed value
\* over 256, which may lie outside [0.1, 0.9].
C3_StoredFactorIsLastPush ==
    /\ \A i \in DOMAIN outputs :
          outputs[i].main_factor.value \in
              {D_0_6} \cup {(f * DDen) \div 256 : f \in FixedValues}
    /\ (event.type = "fixed_value" /\ event.name = "main_factor") =>
          Target.main_factor.value * 256 = event.value * DDen

C3_Witness ==
    /\ event.type = "fixed_value"
    /\ event.name = "main_factor"
    /\ event.value = 256
    /\ Target.main_factor.value > D_0_9

\* a demand that splits the width: more views than main_count, main_count > 0
SplitDemand ==
    /\ DemandHandled
    /\ Target.main_count.value > 0
    /\ event.view_count > Target.main_count.value

\* the width left after the outer padding, for the paddings of the model
InnerWidth == event.width - 2 * Target.outer_padding.value

\* the main region's width as pushed for view 0
PushedMainSize == sent[1].args[4] + 2 * Target.view_padding.value

\* C4: in every demand that splits the width, the main region is the width
\* times a ratio in [0.1, 0.9]: it lies between floor(0.1 * width) and
\* floor(0.9 * width), and it is floor(stored main_factor * width) whenever
\* the stored main_factor is within [0.1, 0.9].
C4_UsedFactorClamped ==
    SplitDemand =>
        /\ (InnerWidth * D_0_1) \div DDen <= PushedMainSize
        /\ PushedMainSize <= (InnerWidth * D_0_9) \div DDen
        /\ InRange(Target.main_factor.value) =>
              PushedMainSize = (InnerWidth * Target.main_factor.value) \div DDen
        /\ Target.main_factor.value > D_0_9 =>
              PushedMainSize = (InnerWidth * D_0_9) \div DDen
        /\ Target.main_factor.value < D_0_1 =>
              PushedMainSize = (InnerWidth * D_0_1) \div DDen

C4_Witness ==
    /\ SplitDemand
    /\ Target.main_factor.value > D_0_9
    /\ PushedMainSize = 81

\* the option an option event was addressed to, and whether its kind fits
EventOption(e, outs) ==
    outs[CHOOSE i \in DOMAIN outs : outs[i].output = e.output][e.name]

Mismatched(e, outs) ==
    \/ e.type \in OptionNoops
    \/ e.type = "uint_value" /\ EventOption(e, outs).type # "UINT_OPTION"
    \/ e.type = "fixed_value" /\ EventOption(e, outs).type # "DOUBLE_OPTION"

Accepted(e, outs) ==
    \/ e.type = "uint_value" /\ EventOption(e, outs).type = "UINT_OPTION"
    \/ e.type = "fixed_value" /\ EventOption(e, outs).type = "DOUBLE_OPTION"

\* C5: the handler of an option event whose kind does not match the declared
\* kind of the option (uint_value on main_factor, fixed_value on a uint
\* option, any int_value, string_value or undeclared) changes no parameter
\* of any output context and issues no request.
C5_MismatchDropped ==
    [][(dispatched' # dispatched /\ Mismatched(event', outputs))
          => (outputs' = outputs /\ sent' = <<>>)]_vars

C5_Witness ==
    /\ event.type = "uint_value"
    /\ event.name = "main_factor"
    /\ event.value = 2
    /\ Target.main_factor.value = wl_fixed_to_double(256)
    /\ sent = <<>>

\* C6: an accepted option push has stored the pushed value in the option and
\* issued exactly one request, parameters_changed on the layout of the output
\* context that owns the option; that layout is present whenever an option
\* handle exists, so whenever an option event can be delivered.
C6_AcceptedNotifiesOwner ==
    /\ \A i \in DOMAIN outputs, name \in OptionNames :
          outputs[i][name].handle # NULL => outputs[i].layout # NULL
    /\ (event.type \in {"uint_value", "fixed_value"} /\ Accepted(event, outputs)) =>
          /\ Len(sent) = 1
          /\ sent[1].req = "parameters_changed"
          /\ sent[1].on = Target.layout
          /\ sent[1].on # NULL
          /\ IF event.type = "uint_value"
             THEN Target[event.name].value = event.value
             ELSE Target[event.name].value * 256 = event.value * DDen

C6_Witness ==
    /\ event.type = "uint_value"
    /\ event.name = "view_padding"
    /\ Len(outputs) = 2
    /\ event.output = outputs[2].output
    /\ sent = <<Request("parameters_changed", outputs[2].layout, "", <<>>)>>
    /\ outputs[2].view_padding.value = 2
    /\ outputs[1].view_padding.value = 5

Exited == pc = "exited"

\* C7 as claimed: once a namespace_in_use event was handled the stop flag is
\* set, and the process then tears down and exits with failure status.
C7_NamespaceInUseExitsFailure ==
    "namespace_in_use" \in fatal =>
        /\ ~loop
        /\ Exited => (outputs = <<>> /\ ret = EXIT_FAILURE)

\* C8 as claimed: the process exits with success status only if the gate
\* fired with both managers bound, no fatal condition occurred and the pump
\* ended by the connection terminating (the stop flag never set).
C8_SuccessOnlyAfterNegotiation ==
    (Exited /\ ret = EXIT_SUCCESS) =>
        /\ gate = "passed"
        /\ fatal = {}
        /\ loop

\* C9: once the gate has fired with both managers bound, every output
\* context of the collection is configured, also those created afterwards,
\* and configure_output has run exactly once for each of them; it never
\* runs twice for a context.
C9_ConfiguredExactlyOnce ==
    /\ \A n \in DOMAIN configures : configures[n] <= 1
    /\ gate = "passed" =>
          \A i \in DOMAIN outputs :
              /\ outputs[i].configured
              /\ outputs[i].layout # NULL
              /\ configures[outputs[i].output] = 1

C9_Witness ==
    /\ gate = "passed"
    /\ event = [type |-> "global", interface |-> "wl_output"]
    /\ Len(outputs) = 3
    /\ Len(sent) = 6
    /\ \A i \in DOMAIN outputs : configures[outputs[i].output] = 1

\* C10: when sync_handle_done has run with the layout manager or the options
\* manager unbound, the stop flag is set and the status is failure, the
\* handler has declared no option and configured no output context (none is
\* configured at that point), and the gate outcome, the stop flag and the
\* failure status stay for the rest of the run.
C10_GateFailure ==
    /\ (event.type = "done" /\ (layout_manager = NULL \/ options_manager = NULL)) =>
          /\ gate = "failed"
          /\ sent = <<Request("destroy", 1, "wl_callback", <<>>)>>
          /\ \A i \in DOMAIN outputs : ~outputs[i].configured
          /\ \A n \in DOMAIN configures : configures[n] = 0
    /\ gate = "failed" =>
          /\ ~loop
          /\ ret = EXIT_FAILURE
          /\ sync_callback = NULL
          /\ "capability" \in fatal
          /\ \A k \in DOMAIN sent :
                sent[k].req \notin {"declare_uint_option", "declare_fixed_option"}

C10_Witness ==
    /\ event.type = "done"
    /\ gate = "failed"
    /\ layout_manager # NULL
    /\ options_manager = NULL
    /\ Len(outputs) = 2

Managers == {"river_layout_manager_v1", "river_options_manager_v2"}

\* C11 as claimed: each manager interface is bound at most once in a run,
\* and the handle kept is the one of the first bind.
C11_ManagersBoundOnce ==
    /\ \A interface \in Managers : binds[interface] <= 1
    /\ layout_manager \in {NULL, 1}
    /\ options_manager \in {NULL, 1}

\* the number of destroy requests in a sequence for proxy `on` of kind `name`
Destroyed(requests, name, on) ==
    Cardinality({k \in DOMAIN requests : /\ requests[k].req = "destroy"
                                         /\ requests[k].name = name
                                         /\ requests[k].on = on})

HandleKinds == {"river_layout_v1"} \cup OptionNames
HandleOf(output, kind) ==
    IF kind = "river_layout_v1" THEN output.layout ELSE output[kind].handle

\* C12: after a successful connection the teardown step is the only way to
\* "exited", nothing runs after it, and it empties the collection; for every
\* context that was in the collection it has released the output once and
\* each layout or option handle once if the handle was created (configure
\* ran for the context) and not at all otherwise; no request is issued on
\* an absent handle.
C12_TeardownReleasesCreated ==
    [][/\ pc = "exited" => FALSE
       /\ (pc' = "exited" /\ wl_display # NULL) =>
             /\ pc = "finish"
             /\ outputs' = <<>>
             /\ \A k \in DOMAIN sent' : sent'[k].on # NULL
             /\ \A i \in DOMAIN outputs :
                   /\ Destroyed(sent', "wl_output", outputs[i].output) = 1
                   /\ \A kind \in HandleKinds :
                         /\ (HandleOf(outputs[i], kind) # NULL)
                               = (configures[outputs[i].output] = 1)
                         /\ Destroyed(sent', kind, outputs[i].output)
                               = configures[outputs[i].output]]_vars

C12_Witness ==
    /\ Exited
    /\ event.type = "finish_wayland"
    /\ configures[1] = 0
    /\ configures[2] = 1
    /\ Destroyed(sent, "wl_output", 1) = 1
    /\ Destroyed(sent, "river_layout_v1", 1) = 0
    /\ Destroyed(sent, "river_layout_v1", 2) = 1
    /\ Destroyed(sent, "main_factor", 2) = 1

\* C13: between handlers every output context has configured true exactly
\* when its layout handle is present, and then its four option handles are
\* present too (and absent otherwise); a context that is configured stays
\* configured as long as it is in the collection.
C13_ConfiguredIffLayout ==
    /\ [](\A i \in DOMAIN outputs :
             /\ outputs[i].configured = (outputs[i].layout # NULL)
             /\ \A name \in OptionNames :
                   outputs[i].configured = (outputs[i][name].handle # NULL))
    /\ [][\A i \in DOMAIN outputs, j \in DOMAIN outputs' :
             (outputs[i].output = outputs'[j].output /\ outputs[i].configured)
                => outputs'[j].configured]_vars

C13_Witness ==
    /\ Len(outputs) = 2
    /\ outputs[1].configured /\ outputs[1].layout # NULL
    /\ ~outputs[2].configured /\ outputs[2].layout = NULL
    /\ outputs[2].main_count.handle = NULL
    /\ gate = "pending"

(* ------------------------------------------------------ engine properties *)
DefaultParameters ==
    /\ Target.main_count.value = 1
    /\ Target.main_factor.value = D_0_6
    /\ Target.view_padding.value = 5
    /\ Target.outer_padding.value = 5

ExampleDemand ==
    /\ DemandHandled
    /\ DefaultParameters
    /\ event.view_count = 4
    /\ event.width = 1000
    /\ event.height = 800

\* C14: with the default parameters a demand for 4 views on 1000 x 800 has
\* pushed, in this order, (10,10,584,780), (604,10,386,253),
\* (604,273,386,253) and (604,536,386,253).
C14_DefaultExample ==
    ExampleDemand =>
        /\ Len(sent) = 5
        /\ SubSeq(sent[1].args, 2, 5) = <<10, 10, 584, 780>>
        /\ SubSeq(sent[2].args, 2, 5) = <<604, 10, 386, 253>>
        /\ SubSeq(sent[3].args, 2, 5) = <<604, 273, 386, 253>>
        /\ SubSeq(sent[4].args, 2, 5) = <<604, 536, 386, 253>>

C14_Witness == ExampleDemand /\ IsCommit(sent[5]) /\ event.serial = 1

\* the reference engine of the specification, in unbounded integers
RefW == event.width - 2 * Target.outer_padding.value
RefH == event.height - 2 * Target.outer_padding.value
RefRatio == MIN(MAX(Target.main_factor.value, D_0_1), D_0_9)
RefM ==
    IF Target.main_count.value = 0 THEN 0
    ELSE IF event.view_count <= Target.main_count.value THEN RefW
    ELSE (RefW * RefRatio) \div DDen

RefSlot(i) ==
    IF i < Target.main_count.value
    THEN LET hm == RefH \div MIN(Target.main_count.value, event.view_count)
         IN  [x |-> 0, y |-> i * hm, w |-> RefM, h |-> hm]
    ELSE LET hs == RefH \div (event.view_count - Target.main_count.value)
         IN  [x |-> RefM, y |-> (i - Target.main_count.value) * hs,
              w |-> RefW - RefM, h |-> hs]

RefRect(i) ==
    LET s  == RefSlot(i)
        vp == Target.view_padding.value
        op == Target.outer_padding.value
    IN  <<s.x + vp + op, s.y + vp + op, s.w - 2 * vp, s.h - 2 * vp>>

\* a demand the reference engine is defined for
RefDemand ==
    /\ DemandHandled
    /\ 2 * Target.outer_padding.value <= event.width
    /\ 2 * Target.outer_padding.value <= event.height

\* the unsigned number held in a equals the integer n
U32Is(a, n) == n >= 0 /\ a = n

\* the 32 bits of the integer n, that is n modulo 2^32
U32Of(n) == U32(Hi(n), Lo(n))

\* C15 as claimed: when 2 * outer_padding <= width and height, every
\* component of the geometry pushed for view i equals, as a number, the
\* component the reference engine computes.
C15_EqualsReference ==
    RefDemand =>
        \A k \in 1..event.view_count : \A c \in 1..4 :
            U32Is(sent[k].args[c + 1], RefRect(k - 1)[c])

\* C15 as amended: when 2 * outer_padding <= width and height, every
\* component pushed for view i is the reference engine's component modulo
\* 2^32; it equals the reference as a number whenever the reference is not
\* negative, that is whenever 2 * view_padding <= the slot's width and
\* height, and is 2^32 minus the shortfall otherwise.
C15_EqualsReferenceMod2_32 ==
    RefDemand =>
        \A k \in 1..event.view_count : \A c \in 1..4 :
            /\ sent[k].args[c + 1] = U32Of(RefRect(k - 1)[c])
            /\ RefRect(k - 1)[c] >= 0 =>
                  U32Is(sent[k].args[c + 1], RefRect(k - 1)[c])
            /\ RefRect(k - 1)[c] < 0 =>
                  /\ Hi(sent[k].args[c + 1]) = Half - 1
                  /\ Lo(sent[k].args[c + 1]) = Half + RefRect(k - 1)[c]

C15_Witness ==
    /\ RefDemand
    /\ event.view_count = 2
    /\ event.width = 100
    /\ Target.main_count.value = 1
    /\ Target.main_factor.value = D_0_6
    /\ Target.view_padding.value = 30
    /\ Target.outer_padding.value = 0
    /\ RefRect(0)[3] = 0
    /\ RefRect(1)[3] < 0
    /\ sent[2].args[4] < 0

\* C16: no division of a handled layout demand has a zero divisor, whatever
\* view_count and main_count are (main_count = 0, view_count = main_count,
\* view_count < main_count, view_count = 0 included): every divisor the loop
\* evaluated is positive and the handler has not trapped.
C16_NoZeroDivisor ==
    /\ pc # "crashed"
    /\ DemandHandled =>
          /\ 0 \notin event.divisors
          /\ \A i \in 0..(event.view_count - 1) :
                IF i < Target.main_count.value
                THEN MIN(Target.main_count.value, event.view_count) > 0
                ELSE event.view_count - Target.main_count.value > 0

C16_Witness ==
    /\ DemandHandled
    /\ event.view_count = 4
    /\ Target.main_count.value = 3
    /\ event.divisors = {3, 1}

\* the slot of the k-th pushed view is narrower / lower than 2 * view_padding
Narrow(k) ==
    U32Less(Slot(Target, event.view_count, event.width, event.height,
                 k - 1).width, U32Mul(2, Target.view_padding.value))
Low(k) ==
    U32Less(Slot(Target, event.view_count, event.width, event.height,
                 k - 1).height, U32Mul(2, Target.view_padding.value))

\* C17 as claimed: when 2 * view_padding exceeds the slot's width or
\* height, the width or height pushed is a non-positive number; the pushed
\* value is unsigned, so it is non-positive only if it is 0.
C17_PushedNonPositive ==
    DemandHandled =>
        \A k \in 1..event.view_count :
            /\ Narrow(k) => sent[k].args[4] = 0
            /\ Low(k) => sent[k].args[5] = 0

\* C17 as amended: when 2 * view_padding exceeds the slot's width or
\* height, nothing is clamped and the width or height pushed is the
\* unsigned difference, 2^32 - (2 * view_padding - slot size), a number of
\* at least 2^31.
C17_PushedWrapsAround ==
    DemandHandled =>
        \A k \in 1..event.view_count :
            LET s == Slot(Target, event.view_count, event.width,
                          event.height, k - 1)
                d == 2 * Target.view_padding.value
            IN  /\ Narrow(k) =>
                      /\ Hi(sent[k].args[4]) = Half - 1
                      /\ Lo(sent[k].args[4]) = Half - (d - s.width)
                /\ Low(k) =>
                      /\ Hi(sent[k].args[5]) = Half - 1
                      /\ Lo(sent[k].args[5]) = Half - (d - s.height)

C17_Witness ==
    /\ DemandHandled
    /\ event.view_count = 2
    /\ event.width = 100
    /\ Target.main_count.value = 1
    /\ Target.view_padding.value = 60
    /\ Target.outer_padding.value = 0
    /\ Narrow(1)
    /\ Hi(sent[1].args[4]) = Half - 1

(* ----------------------------------------------------- ordering and frame *)
IsDeclare(r, name) ==
    /\ r.req \in {"declare_uint_option", "declare_fixed_option"}
    /\ r.name = name

\* C18 as claimed: every get_option_handle request is issued after this
\* client declared the option of that name: by an earlier request of the
\* same handler, or by the handler of the sync callback having run before.
C18_DeclaredBeforeRequested ==
    \A k \in DOMAIN sent :
        sent[k].req = "get_option_handle" =>
            \/ \E j \in 1..(k - 1) : IsDeclare(sent[j], sent[k].name)
            \/ gate = "passed" /\ event.type # "done"

LayoutRequests == {"push_view_dimensions", "commit", "parameters_changed"}

\* C19: the handler of a layout demand or of an option push addressed to
\* the output context A leaves every other context as it was (parameters,
\* layout handle, configured flag, option handles) and leaves the collection
\* as it was, issues requests on A's layout only, and the handler of a
\* layout demand leaves A's parameters unchanged too.
C19_HandlersTouchOnlyTarget ==
    [][(/\ dispatched' # dispatched
        /\ event'.type \in {"layout_demand", "uint_value", "fixed_value"}) =>
           /\ Len(outputs') = Len(outputs)
           /\ \A i \in DOMAIN outputs :
                 /\ outputs'[i].output = outputs[i].output
                 /\ outputs'[i].layout = outputs[i].layout
                 /\ outputs'[i].configured = outputs[i].configured
                 /\ outputs[i].output # event'.output =>
                       outputs'[i] = outputs[i]
                 /\ outputs[i].output = event'.output =>
                       \A k \in DOMAIN sent' :
                           /\ sent'[k].req \in LayoutRequests
                           /\ sent'[k].on = outputs[i].layout
           /\ event'.type = "layout_demand" => outputs' = outputs]_vars

C19_Witness ==
    /\ event.type = "uint_value"
    /\ event.name = "main_count"
    /\ Len(outputs) = 2
    /\ event.output = outputs[1].output
    /\ outputs[1].main_count.value = 2
    /\ outputs[2].main_count.value = 0
    /\ outputs[1].layout # outputs[2].layout
    /\ sent = <<Request("parameters_changed", outputs[1].layout, "", <<>>)>>

\* C20: once the stop flag is set (loop is false) it stays set; from then on
\* the pump starts no new dispatch call once the current one has returned;
\* and eventually the teardown has emptied the output collection and the
\* process has exited.
C20_StopLeadsToExit ==
    /\ [][~loop => ~loop']_vars
    /\ [][(~loop /\ pc # "dispatch") => pc' # "dispatch"]_vars
    /\ ~loop ~> (Exited /\ outputs = <<>> /\ event.type = "finish_wayland")

C20_Witness ==
    /\ Exited
    /\ ~loop
    /\ fatal = {"namespace_in_use"}
    /\ outputs = <<>>
    /\ event.type = "finish_wayland"
    /\ Destroyed(sent, "river_layout_v1", 1) = 1

(* ------------------------------------------------------------- tiling *)
\* the rectangle the k-th request of a handled demand carries
Rect(k) == [x |-> sent[k].args[2], y |-> sent[k].args[3],
            w |-> sent[k].args[4], h |-> sent[k].args[5]]

\* a handled demand whose paddings leave room: 2 * outer_padding is less
\* than the width and the height, and 2 * view_padding is less than the
\* width and the height of the slot of every view
SmallPaddings ==
    /\ DemandHandled
    /\ 2 * Target.outer_padding.value < event.width
    /\ 2 * Target.outer_padding.value < event.height
    /\ \A k \in 1..event.view_count : ~Narrow(k) /\ ~Low(k)
    /\ \A k \in 1..event.view_count :
          LET s == Slot(Target, event.view_count, event.width,
                        event.height, k - 1)
          IN  /\ s.width # 2 * Target.view_padding.value
              /\ s.height # 2 * Target.view_padding.value

\* two rectangles share a point of positive area
Overlap(a, b) ==
    /\ a.x < b.x + b.w
    /\ b.x < a.x + a.w
    /\ a.y < b.y + b.h
    /\ b.y < a.y + a.h

\* C21: in a demand whose paddings leave room, every pushed rectangle has a
\* positive width and height and lies inside the demanded area, at least
\* outer_padding away from each of its four edges, and the rectangles
\* pushed for two distinct views do not overlap.
C21_RectanglesTile ==
    SmallPaddings =>
        \A k \in 1..event.view_count :
            /\ Rect(k).w > 0
            /\ Rect(k).h > 0
            /\ Rect(k).x >= Target.outer_padding.value
            /\ Rect(k).y >= Target.outer_padding.value
            /\ Rect(k).x + Rect(k).w
                  <= event.width - Target.outer_padding.value
            /\ Rect(k).y + Rect(k).h
                  <= event.height - Target.outer_padding.value
            /\ \A j \in 1..event.view_count :
                  j # k => ~Overlap(Rect(j), Rect(k))

C21_Witness ==
    /\ SmallPaddings
    /\ event.view_count = 4
    /\ event.width = 100
    /\ Target.main_count.value = 2
    /\ Target.view_padding.value = 5
    /\ Target.outer_padding.value = 5
    /\ Target.main_factor.value = D_0_6
    /\ Rect(1).x = Rect(2).x
    /\ Rect(3).x > Rect(1).x + Rect(1).w
    /\ Rect(4).y > Rect(3).y + Rect(3).h
====
